---- MODULE Spec2Model ----
(***************************************************************************)
(* Cancellable timer (pi_cancel_timer, src/src/lib.rs): a timing wheel, an *)
(* overflow min-heap and a slot arena composed by Timer.                   *)
(*                                                                         *)
(* Timer's own methods (push_time, push, pop, pop_kv, is_ok, roll, cancel, *)
(* retimeout, set_index) are translated from lib.rs.  The Slot arena, the  *)
(* Wheel and the ExtHeap live in other crates; they are modelled from      *)
(* sections 4.1-4.3 of the specification.                                  *)
(***************************************************************************)
EXTENDS Integers, Sequences, FiniteSets, TLC

\* Wheel parameters: Timer<T, N0, N, L>.
N0 == 1
N == 1
L == 1

\* Bounds of the exploration.
MaxKeys == 2

\* Delays and the clock reach two full epochs of the wheel.
MaxTimeout == 2 * (N0 + N * L)
MaxNow == MaxTimeout

VARIABLES slot, wheel, heap, add_count, remove_count, roll_count,
          pushed, handed, skipped

vars == <<slot, wheel, heap, add_count, remove_count, roll_count,
          pushed, handed, skipped>>

None == <<>>
Some(v) == <<v>>

Max(a, b) == IF a >= b THEN a ELSE b

(***************************************************************************)
(* Slot arena (spec 4.1).  nodes maps each live key to its node; next is   *)
(* the allocator: keys are never reused.                                   *)
(***************************************************************************)
TimeoutItem(timeout, el, index) == [timeout |-> timeout, el |-> el, index |-> index]

slot_insert(s, node) ==
    [nodes |-> [k \in DOMAIN s.nodes \cup {s.next} |->
                  IF k = s.next THEN node ELSE s.nodes[k]],
     next |-> s.next + 1]

slot_remove(s, key) ==
    [s EXCEPT !.nodes = [k \in DOMAIN s.nodes \ {key} |-> s.nodes[k]]]

(***************************************************************************)
(* Timing wheel (spec 4.2): one bucket per representable delay,            *)
(* 0 .. N0 + N*L - 1, and a pointer to the current bucket.                 *)
(***************************************************************************)
max_time == N0 + N * L

Remove(seq, key) == SelectSeq(seq, LAMBDA x : x # key)

wheel_slot(w, timeout) == (w.index + timeout) % max_time

wheel_push(w, s, timeout, el) ==
    IF timeout < max_time
    THEN LET b == wheel_slot(w, timeout)
         IN [ok |-> TRUE, key |-> s.next,
             wheel |-> [w EXCEPT !.slots[b] = Append(@, s.next)],
             slot |-> slot_insert(s, TimeoutItem(timeout, el, b))]
    ELSE [ok |-> FALSE, timeout |-> timeout, el |-> el]

is_cur_over(w) == w.slots[w.index] = <<>>

wheel_pop_kv(w, s) ==
    IF is_cur_over(w)
    THEN [some |-> FALSE]
    ELSE LET key == Head(w.slots[w.index])
         IN [some |-> TRUE, key |-> key, node |-> s.nodes[key],
             wheel |-> [w EXCEPT !.slots[w.index] = Tail(@)],
             slot |-> slot_remove(s, key)]

wheel_roll(w) ==
    LET i == (w.index + 1) % max_time
    IN [wheel |-> [w EXCEPT !.index = i], over |-> i = 0]

repair(w, index, key) == [w EXCEPT !.slots[index] = Remove(@, key)]

(***************************************************************************)
(* retimeout and set_index: the callbacks lib.rs hands to the wheel and    *)
(* to the heap.                                                            *)
(***************************************************************************)
retimeout(timeout, it) == [it EXCEPT !.timeout = timeout]

\* set_index writing the heap-space marker without the position.
set_index_no_loc(s, arr, loc) ==
    [s EXCEPT !.nodes[arr[loc + 1][2]].index = N0 + N * L]

\* arr is the heap array (position p is arr[p + 1]), loc a position in it.
set_index(s, arr, loc) ==
    [s EXCEPT !.nodes[arr[loc + 1][2]].index = N0 + N * L + loc]

push_key(w, s, key, timeout) ==
    LET b == wheel_slot(w, timeout)
    IN [wheel |-> [w EXCEPT !.slots[b] = Append(@, key)],
        slot |-> [s EXCEPT !.nodes[key] =
                     [retimeout(timeout, @) EXCEPT !.index = b]]]

(***************************************************************************)
(* Overflow heap (spec 4.3): a binary min-heap of <<tick, key>> in a dense *)
(* array; every element it places is reported through set_index.          *)
(***************************************************************************)
heap_less(a, b) == a[1] < b[1] \/ (a[1] = b[1] /\ a[2] < b[2])

heap_swap(h, i, j) ==
    LET a == [h.arr EXCEPT ![i + 1] = h.arr[j + 1], ![j + 1] = h.arr[i + 1]]
    IN [arr |-> a, slot |-> set_index(set_index(h.slot, a, i), a, j)]

RECURSIVE heap_up(_, _)
heap_up(h, pos) ==
    IF pos = 0 THEN h
    ELSE LET parent == (pos - 1) \div 2
         IN IF heap_less(h.arr[pos + 1], h.arr[parent + 1])
            THEN heap_up(heap_swap(h, pos, parent), parent)
            ELSE h

RECURSIVE heap_down(_, _)
heap_down(h, pos) ==
    LET n == Len(h.arr)
        l == 2 * pos + 1
        r == 2 * pos + 2
        c == IF r < n /\ heap_less(h.arr[r + 1], h.arr[l + 1]) THEN r ELSE l
    IN IF l < n /\ heap_less(h.arr[c + 1], h.arr[pos + 1])
       THEN heap_down(heap_swap(h, pos, c), c)
       ELSE h

heap_push(arr, s, e) ==
    LET a == Append(arr, e)
        loc == Len(arr)
    IN heap_up([arr |-> a, slot |-> set_index(s, a, loc)], loc)

\* Removes position pos (< Len(arr)): the last element takes its place.
heap_remove(arr, s, pos) ==
    LET n == Len(arr)
        e == arr[pos + 1]
    IN IF pos = n - 1
       THEN [e |-> e, arr |-> SubSeq(arr, 1, n - 1), slot |-> s]
       ELSE LET a == [SubSeq(arr, 1, n - 1) EXCEPT ![pos + 1] = arr[n]]
                h == heap_down(heap_up([arr |-> a, slot |-> set_index(s, a, pos)], pos), pos)
            IN [e |-> e, arr |-> h.arr, slot |-> h.slot]

heap_pop(arr, s) == heap_remove(arr, s, 0)

(***************************************************************************)
(* Timer (lib.rs).  A timer value t is the record of its fields; every     *)
(* method returns the timer after the call and what the call returns.      *)
(***************************************************************************)
Self == [slot |-> slot, wheel |-> wheel, heap |-> heap, add_count |-> add_count,
         remove_count |-> remove_count, roll_count |-> roll_count]

Default ==
    [slot |-> [nodes |-> <<>>, next |-> 0],
     wheel |-> [index |-> 0, slots |-> [b \in 0 .. max_time - 1 |-> <<>>]],
     heap |-> <<>>,
     add_count |-> 0, remove_count |-> 0, roll_count |-> 0]

push(t, timeout, el) ==
    LET t1 == [t EXCEPT !.add_count = @ + 1]
        r == wheel_push(t1.wheel, t1.slot, timeout, el)
    IN IF r.ok
       THEN [t |-> [t1 EXCEPT !.wheel = r.wheel, !.slot = r.slot], ret |-> r.key]
       ELSE LET key == t1.slot.next
                s == slot_insert(t1.slot, TimeoutItem(0, r.el, N0 + N * L))
                h == heap_push(t1.heap, s, <<r.timeout, key>>)
            IN [t |-> [t1 EXCEPT !.heap = h.arr, !.slot = h.slot], ret |-> key]

\* push_time handing the absolute tick to push as if it were the delay.
push_time_as_delay(t, time, el) == push(t, time, el)

push_time(t, time, el) ==
    push(t, IF time >= t.roll_count THEN time - t.roll_count ELSE 0, el)

\* The loop of roll(): moves the heap's minimum into the wheel while its
\* tick is below max_time.
\* The migration as a single test in place of the loop.
migrate_once(t) ==
    IF t.heap = <<>> \/ t.heap[1][1] >= max_time
    THEN t
    ELSE LET p == heap_pop(t.heap, t.slot)
             w == push_key(t.wheel, p.slot, p.e[2], p.e[1])
         IN [t EXCEPT !.heap = p.arr, !.wheel = w.wheel, !.slot = w.slot]

\* The migration loop stopping one tick below max_time.
RECURSIVE migrate_below(_)
migrate_below(t) ==
    IF t.heap = <<>> \/ t.heap[1][1] >= max_time - 1
    THEN t
    ELSE LET p == heap_pop(t.heap, t.slot)
             w == push_key(t.wheel, p.slot, p.e[2], p.e[1])
         IN migrate_below([t EXCEPT !.heap = p.arr, !.wheel = w.wheel, !.slot = w.slot])

RECURSIVE migrate(_)
migrate(t) ==
    IF t.heap = <<>> \/ t.heap[1][1] >= max_time
    THEN t
    ELSE LET p == heap_pop(t.heap, t.slot)
             w == push_key(t.wheel, p.slot, p.e[2], p.e[1])
         IN migrate([t EXCEPT !.heap = p.arr, !.wheel = w.wheel, !.slot = w.slot])

\* The rebase loop starting at position 1 of the heap array.
rebase_skip_first(arr) ==
    [i \in 1 .. Len(arr) |-> IF i = 1 THEN arr[i] ELSE <<arr[i][1] - max_time, arr[i][2]>>]

\* roll() without the rebase of the heap ticks.
rebase_none(arr) == arr

rebase(arr) == [i \in 1 .. Len(arr) |-> <<arr[i][1] - max_time, arr[i][2]>>]

\* roll() rebasing and migrating on every tick.
roll_every_tick(t) ==
    LET t1 == [t EXCEPT !.roll_count = @ + 1]
        r == wheel_roll(t1.wheel)
        t2 == [t1 EXCEPT !.wheel = r.wheel]
    IN migrate([t2 EXCEPT !.heap = rebase(@)])

roll(t) ==
    LET t1 == [t EXCEPT !.roll_count = @ + 1]
        r == wheel_roll(t1.wheel)
        t2 == [t1 EXCEPT !.wheel = r.wheel]
    IN IF r.over
       THEN migrate([t2 EXCEPT !.heap = rebase(@)])
       ELSE t2

\* The loop of pop advancing the clock to now before it looks for an entry.
RECURSIVE pop_loop_roll_first(_, _, _)
pop_loop_roll_first(t, now, rolls) ==
    IF t.roll_count < now
    THEN pop_loop_roll_first(roll(t), now, rolls + 1)
    ELSE LET r == wheel_pop_kv(t.wheel, t.slot)
         IN IF r.some
            THEN [t |-> [t EXCEPT !.wheel = r.wheel, !.slot = r.slot,
                                  !.remove_count = @ + 1],
                  some |-> TRUE, key |-> r.key, el |-> r.node.el, rolls |-> rolls]
            ELSE [t |-> t, some |-> FALSE, rolls |-> rolls]

\* The loop of pop stopping at roll_count > now instead of >= now.
RECURSIVE pop_loop_past_now(_, _, _)
pop_loop_past_now(t, now, rolls) ==
    LET r == wheel_pop_kv(t.wheel, t.slot)
    IN IF r.some
       THEN [t |-> [t EXCEPT !.wheel = r.wheel, !.slot = r.slot,
                             !.remove_count = @ + 1],
             some |-> TRUE, key |-> r.key, el |-> r.node.el, rolls |-> rolls]
       ELSE IF t.roll_count > now
            THEN [t |-> t, some |-> FALSE, rolls |-> rolls]
            ELSE pop_loop_past_now(roll(t), now, rolls + 1)

\* The loop of pop testing the clock only after it has rolled.
RECURSIVE pop_loop_test_after(_, _, _)
pop_loop_test_after(t, now, rolls) ==
    LET r == wheel_pop_kv(t.wheel, t.slot)
    IN IF r.some
       THEN [t |-> [t EXCEPT !.wheel = r.wheel, !.slot = r.slot,
                             !.remove_count = @ + 1],
             some |-> TRUE, key |-> r.key, el |-> r.node.el, rolls |-> rolls]
       ELSE LET t1 == roll(t)
            IN IF t1.roll_count >= now
               THEN [t |-> t1, some |-> FALSE, rolls |-> rolls + 1]
               ELSE pop_loop_test_after(t1, now, rolls + 1)

\* rolls counts the calls of roll() the loop made.
RECURSIVE pop_loop(_, _, _)
pop_loop(t, now, rolls) ==
    LET r == wheel_pop_kv(t.wheel, t.slot)
    IN IF r.some
       THEN [t |-> [t EXCEPT !.wheel = r.wheel, !.slot = r.slot,
                             !.remove_count = @ + 1],
             some |-> TRUE, key |-> r.key, el |-> r.node.el, rolls |-> rolls]
       ELSE IF t.roll_count >= now
            THEN [t |-> t, some |-> FALSE, rolls |-> rolls]
            ELSE pop_loop(roll(t), now, rolls + 1)

\* pop_kv handing out the null key in place of the entry's key.
pop_kv_null_key(t, now) ==
    LET r == pop_loop(t, now, 0)
    IN [t |-> r.t, ret |-> IF r.some THEN Some(<<MaxKeys, r.el>>) ELSE None,
        rolls |-> r.rolls]

pop_kv(t, now) ==
    LET r == pop_loop(t, now, 0)
    IN [t |-> r.t, ret |-> IF r.some THEN Some(<<r.key, r.el>>) ELSE None,
        rolls |-> r.rolls]

pop(t, now) ==
    LET r == pop_loop(t, now, 0)
    IN [t |-> r.t, ret |-> IF r.some THEN Some(r.el) ELSE None,
        key |-> IF r.some THEN Some(r.key) ELSE None, rolls |-> r.rolls]

\* The loop of is_ok testing the clock before the current bucket.
RECURSIVE is_ok_loop_clock_first(_, _, _)
is_ok_loop_clock_first(t, now, rolls) ==
    IF t.roll_count >= now
    THEN [t |-> t, ret |-> FALSE, rolls |-> rolls]
    ELSE IF ~is_cur_over(t.wheel)
         THEN [t |-> t, ret |-> TRUE, rolls |-> rolls]
         ELSE is_ok_loop_clock_first(roll(t), now, rolls + 1)

\* is_ok as a pure peek: it reports on the current bucket and never rolls.
is_ok_loop_peek(t, now, rolls) ==
    [t |-> t, ret |-> ~is_cur_over(t.wheel), rolls |-> rolls]

\* The loop of is_ok rolling up to now before it looks at the bucket.
RECURSIVE is_ok_loop_roll_first(_, _, _)
is_ok_loop_roll_first(t, now, rolls) ==
    IF t.roll_count < now
    THEN is_ok_loop_roll_first(roll(t), now, rolls + 1)
    ELSE [t |-> t, ret |-> ~is_cur_over(t.wheel), rolls |-> rolls]

\* The loop of is_ok stopping one tick after now.
RECURSIVE is_ok_loop_past_now(_, _, _)
is_ok_loop_past_now(t, now, rolls) ==
    IF ~is_cur_over(t.wheel)
    THEN [t |-> t, ret |-> TRUE, rolls |-> rolls]
    ELSE IF t.roll_count > now
         THEN [t |-> t, ret |-> FALSE, rolls |-> rolls]
         ELSE is_ok_loop_past_now(roll(t), now, rolls + 1)

RECURSIVE is_ok_loop(_, _, _)
is_ok_loop(t, now, rolls) ==
    IF ~is_cur_over(t.wheel)
    THEN [t |-> t, ret |-> TRUE, rolls |-> rolls]
    ELSE IF t.roll_count >= now
         THEN [t |-> t, ret |-> FALSE, rolls |-> rolls]
         ELSE is_ok_loop(roll(t), now, rolls + 1)

is_ok(t, now) == is_ok_loop(t, now, 0)

\* cancel without the increment of remove_count.
cancel_no_count(t, key) ==
    IF key \in DOMAIN t.slot.nodes
    THEN LET node == t.slot.nodes[key]
             s == slot_remove(t.slot, key)
             t1 == [t EXCEPT !.slot = s]
         IN IF node.index < N0 + N * L
            THEN [t |-> [t1 EXCEPT !.wheel = repair(@, node.index, key)],
                  ret |-> Some(node.el)]
            ELSE LET h == heap_remove(t1.heap, s, node.index - N0 - N * L)
                 IN [t |-> [t1 EXCEPT !.heap = h.arr, !.slot = h.slot],
                     ret |-> Some(node.el)]
    ELSE [t |-> t, ret |-> None]

\* cancel reading the node (get) where it should take it out of the arena.
cancel_get(t, key) ==
    IF key \in DOMAIN t.slot.nodes
    THEN [t |-> [t EXCEPT !.remove_count = @ + 1],
          ret |-> Some(t.slot.nodes[key].el)]
    ELSE [t |-> t, ret |-> None]

\* cancel counting a removal before it knows that the key is live.
cancel_count_first(t, key) ==
    LET t0 == [t EXCEPT !.remove_count = @ + 1]
    IN IF key \in DOMAIN t.slot.nodes
       THEN LET node == t.slot.nodes[key]
                s == slot_remove(t.slot, key)
                t1 == [t0 EXCEPT !.slot = s]
            IN IF node.index < N0 + N * L
               THEN [t |-> [t1 EXCEPT !.wheel = repair(@, node.index, key)],
                     ret |-> Some(node.el)]
               ELSE LET h == heap_remove(t1.heap, s, node.index - N0 - N * L)
                    IN [t |-> [t1 EXCEPT !.heap = h.arr, !.slot = h.slot],
                        ret |-> Some(node.el)]
       ELSE [t |-> t0, ret |-> None]

\* cancel leaving a wheel entry linked in its bucket.
cancel_no_repair(t, key) ==
    IF key \in DOMAIN t.slot.nodes
    THEN LET node == t.slot.nodes[key]
             s == slot_remove(t.slot, key)
             t1 == [t EXCEPT !.slot = s, !.remove_count = @ + 1]
         IN IF node.index < N0 + N * L
            THEN [t |-> t1, ret |-> Some(node.el)]
            ELSE LET h == heap_remove(t1.heap, s, node.index - N0 - N * L)
                 IN [t |-> [t1 EXCEPT !.heap = h.arr, !.slot = h.slot],
                     ret |-> Some(node.el)]
    ELSE [t |-> t, ret |-> None]

cancel(t, key) ==
    IF key \in DOMAIN t.slot.nodes
    THEN LET node == t.slot.nodes[key]
             s == slot_remove(t.slot, key)
             t1 == [t EXCEPT !.slot = s, !.remove_count = @ + 1]
         IN IF node.index < N0 + N * L
            THEN [t |-> [t1 EXCEPT !.wheel = repair(@, node.index, key)],
                  ret |-> Some(node.el)]
            ELSE LET h == heap_remove(t1.heap, s, node.index - N0 - N * L)
                 IN [t |-> [t1 EXCEPT !.heap = h.arr, !.slot = h.slot],
                     ret |-> Some(node.el)]
    ELSE [t |-> t, ret |-> None]

(***************************************************************************)
(* The driver: one action per call of the public interface.  pushed,       *)
(* handed and skipped record the calls made, for the properties.           *)
(*   pushed[k]  for a live key k, the push that issued it: roll_count      *)
(*              then, and the timeout                                      *)
(*   handed[k]  every return of k's payload to the caller: by "pop" (pop   *)
(*              or pop_kv) or by "cancel".  A pop's entry says whether the *)
(*              timeout was beyond the wheel's range (far), where in the   *)
(*              epoch the push was made (phase), how many ticks after the  *)
(*              due tick the payload came back (lag) and whether the key   *)
(*              had been skipped                                           *)
(*   skipped    the live keys that sat in the current bucket when roll()   *)
(*              was called directly: the clock went past them              *)
(***************************************************************************)
\* The keys the arena issues; MaxKeys is a key it never issues.
Keys == 0 .. MaxKeys - 1

\* The caller schedules a distinct payload with every push.
Payload(n) == <<"el", n>>

Install(t) ==
    /\ slot' = t.slot
    /\ wheel' = t.wheel
    /\ heap' = t.heap
    /\ add_count' = t.add_count
    /\ remove_count' = t.remove_count
    /\ roll_count' = t.roll_count

Live == DOMAIN slot.nodes

Range(seq) == {seq[i] : i \in DOMAIN seq}

Restrict(f, S) == [k \in DOMAIN f \cap S |-> f[k]]

Record(k, info) == [j \in DOMAIN pushed \cup {k} |-> IF j = k THEN info ELSE pushed[j]]

\* The push that issued a key: roll_count at the call, and the timeout.
Due(at, timeout) == [at |-> at, timeout |-> timeout]

\* k's payload is returned to the caller by a pop made at roll_count = when.
HandPop(k, when) ==
    [handed EXCEPT ![k] = Append(@,
        [by |-> "pop",
         far |-> pushed[k].timeout >= max_time,
         phase |-> pushed[k].at % max_time,
         lag |-> when - (pushed[k].at + pushed[k].timeout),
         skipped |-> k \in skipped])]

HandCancel(k) ==
    [handed EXCEPT ![k] = Append(@,
        [by |-> "cancel", far |-> pushed[k].timeout >= max_time])]

Init ==
    /\ slot = Default.slot
    /\ wheel = Default.wheel
    /\ heap = Default.heap
    /\ add_count = Default.add_count
    /\ remove_count = Default.remove_count
    /\ roll_count = Default.roll_count
    /\ pushed = <<>>
    /\ handed = [k \in Keys |-> <<>>]
    /\ skipped = {}

Push(timeout, el) ==
    /\ slot.next < MaxKeys
    /\ LET r == push(Self, timeout, el)
       IN /\ Install(r.t)
          /\ pushed' = Record(r.ret, Due(roll_count, timeout))
    /\ UNCHANGED <<handed, skipped>>

PushTime(time, el) ==
    /\ slot.next < MaxKeys
    /\ LET r == push_time(Self, time, el)
       IN /\ Install(r.t)
          /\ pushed' = Record(r.ret, Due(roll_count, Max(time - roll_count, 0)))
    /\ UNCHANGED <<handed, skipped>>

\* What a pop leaves in the history: k is the key it removed, if any.
Popped(t, k) ==
    /\ Install(t)
    /\ handed' = IF k = None THEN handed ELSE HandPop(k[1], t.roll_count)
    /\ pushed' = Restrict(pushed, DOMAIN t.slot.nodes)
    /\ skipped' = skipped \cap DOMAIN t.slot.nodes

Pop(now) ==
    LET r == pop(Self, now)
    IN /\ Popped(r.t, r.key)

PopKv(now) ==
    LET r == pop_kv(Self, now)
    IN /\ Popped(r.t, IF r.ret = None THEN None ELSE Some(r.ret[1][1]))

IsOk(now) ==
    /\ LET r == is_ok(Self, now)
       IN /\ Install(r.t)
    /\ UNCHANGED <<pushed, handed, skipped>>

Roll ==
    /\ roll_count < MaxNow
    /\ Install(roll(Self))
    /\ skipped' = skipped \cup Range(wheel.slots[wheel.index])
    /\ UNCHANGED <<pushed, handed>>

Cancel(key) ==
    LET r == cancel(Self, key)
    IN /\ Install(r.t)
       /\ handed' = IF r.ret = None THEN handed ELSE HandCancel(key)
       /\ pushed' = Restrict(pushed, DOMAIN r.t.slot.nodes)
       /\ skipped' = skipped \cap DOMAIN r.t.slot.nodes

Next ==
    \/ \E timeout \in 0 .. MaxTimeout : Push(timeout, Payload(slot.next))
    \/ \E time \in 0 .. MaxNow + max_time : PushTime(time, Payload(slot.next))
    \/ \E now \in 0 .. MaxNow : Pop(now)
    \/ \E now \in 0 .. MaxNow : PopKv(now)
    \/ \E now \in 0 .. MaxNow : IsOk(now)
    \/ Roll
    \/ \E key \in 0 .. MaxKeys : Cancel(key)

Spec == Init /\ [][Next]_vars

(***************************************************************************)
(* Properties.                                                             *)
(***************************************************************************)
Nows == 0 .. MaxNow

\* The places of key k in the containers of timer t: <<bucket, position>>
\* in the wheel, <<position>> in the heap.
InWheel(t, k) ==
    UNION {{<<b, i>> : i \in {j \in DOMAIN t.wheel.slots[b] : t.wheel.slots[b][j] = k}} :
           b \in DOMAIN t.wheel.slots}

InHeap(t, k) == {<<i - 1>> : i \in {j \in DOMAIN t.heap : t.heap[j][2] = k}}

Places(t, k) == InWheel(t, k) \cup InHeap(t, k)

RECURSIVE WheelCount(_, _)
WheelCount(w, b) ==
    IF b = max_time THEN 0 ELSE Len(w.slots[b]) + WheelCount(w, b + 1)

PopEntries(k) == {i \in DOMAIN handed[k] : handed[k][i].by = "pop"}

CancelEntries(k) == {i \in DOMAIN handed[k] : handed[k][i].by = "cancel"}

\* C1: add_count - remove_count is the number of live entries (arena nodes),
\* which is the number of entries in wheel buckets plus the number in the
\* overflow heap, in every reachable state.
C1_LiveCount ==
    /\ add_count - remove_count = Cardinality(Live)
    /\ Cardinality(Live) = WheelCount(wheel, 0) + Len(heap)

C1_Witness ==
    /\ remove_count >= 1
    /\ roll_count >= 1
    /\ Len(heap) >= 1
    /\ WheelCount(wheel, 0) = 0

\* C2: an entry pushed with timeout t < max_time at roll_count = r is never
\* returned by a pop while roll_count < r + t and is returned at most once;
\* unless a direct roll() skipped it, the clock does not pass r + t while it
\* is live, at r + t it sits in the current bucket, so that pop returns
\* without rolling, and when it is returned roll_count = r + t.
C2_WheelDue ==
    /\ \A k \in Keys : \A i \in PopEntries(k) :
          ~handed[k][i].far =>
             /\ Len(handed[k]) = 1
             /\ handed[k][i].lag >= 0
             /\ ~handed[k][i].skipped => handed[k][i].lag = 0
    /\ \A k \in Live :
          (pushed[k].timeout < max_time /\ k \notin skipped) =>
             /\ roll_count <= pushed[k].at + pushed[k].timeout
             /\ roll_count = pushed[k].at + pushed[k].timeout =>
                   /\ k \in Range(wheel.slots[wheel.index])
                   /\ \A now \in Nows : LET r == pop(Self, now)
                                        IN r.ret # None /\ r.rolls = 0

\* A wheel entry pushed at an odd roll_count came back on its due tick.
C2_Witness ==
    \E k \in Keys :
       /\ Len(handed[k]) = 1
       /\ handed[k][1].by = "pop"
       /\ ~handed[k][1].far
       /\ handed[k][1].phase # 0
       /\ handed[k][1].lag = 0
       /\ ~handed[k][1].skipped
       /\ roll_count >= 2

\* C3: an entry pushed with timeout t >= max_time at roll_count = r is never
\* returned by a pop while roll_count < r + t.
C3_HeapDue ==
    \A k \in Keys : \A i \in PopEntries(k) :
       handed[k][i].far => handed[k][i].lag >= 0

\* C4: cancel(k) of a live key k, in a wheel bucket or in the heap, returns
\* Some(payload pushed with k); once cancelled, the payload is handed out by
\* no later pop, pop_kv or cancel and the key is live no more.
C4_Cancel ==
    /\ \A k \in Live : cancel(Self, k).ret = Some(Payload(k))
    /\ \A k \in Keys : CancelEntries(k) # {} => (Len(handed[k]) = 1 /\ k \notin Live)

\* A heap entry was cancelled, and another heap entry migrated and popped.
C4_Witness ==
    \E j, k \in Keys :
       /\ handed[j] = <<[by |-> "cancel", far |-> TRUE]>>
       /\ Len(handed[k]) = 1
       /\ handed[k][1].by = "pop"
       /\ handed[k][1].far

\* C5: cancel(k) on a key that was never issued, was cancelled or was popped
\* returns None and leaves add_count, remove_count, roll_count, the wheel,
\* the heap and the arena as they were.
C5_CancelAbsent ==
    \A k \in (0 .. MaxKeys) \ Live : cancel(Self, k) = [t |-> Self, ret |-> None]

\* One key was cancelled, one was popped, and MaxKeys was never issued.
C5_Witness ==
    /\ Live = {}
    /\ \E j, k \in Keys : CancelEntries(j) # {} /\ PopEntries(k) # {}
    /\ cancel(Self, MaxKeys).ret = None

\* C6: every live node's location tag is accurate: below N0 + N*L it names
\* the wheel bucket that links the node, otherwise the heap position (plus
\* N0 + N*L) that holds its key; so cancel of any live key takes exactly
\* that key out of the containers.
C6_Location ==
    \A k \in Live :
       LET index == slot.nodes[k].index
           r == cancel(Self, k)
       IN /\ IF index < N0 + N * L
             THEN k \in Range(wheel.slots[index])
             ELSE /\ index - (N0 + N * L) < Len(heap)
                  /\ heap[index - (N0 + N * L) + 1][2] = k
          /\ Places(r.t, k) = {}
          /\ \A j \in Live \ {k} : Cardinality(Places(r.t, j)) = 1

\* A push onto a non-empty heap sifted the new entry up to position 0.
C6_Witness ==
    /\ Len(heap) = 2
    /\ heap[1][2] = 1
    /\ slot.nodes[1].index = N0 + N * L
    /\ slot.nodes[0].index = N0 + N * L + 1

\* C7: every live key is in exactly one place of one container, no removed
\* or unissued key is in any container, and every payload is handed to the
\* caller at most once over all pop, pop_kv and cancel calls.
C7_OnePlace ==
    /\ \A k \in Live : Cardinality(Places(Self, k)) = 1
    /\ \A k \in (0 .. MaxKeys) \ Live : Places(Self, k) = {}
    /\ \A k \in Keys : Len(handed[k]) <= 1

\* A live wheel entry that came from the heap, beside a cancelled key.
C7_Witness ==
    \E j, k \in Keys :
       /\ k \in Live
       /\ pushed[k].timeout >= max_time
       /\ InWheel(Self, k) # {}
       /\ CancelEntries(j) # {}

\* C8: pop(now) and pop_kv(now) leave roll_count <= max(roll_count before,
\* now), make no roll when the current bucket holds an entry or when
\* roll_count >= now, and return None only with roll_count >= now.
C8_NotPastNow ==
    \A now \in Nows :
       LET p == pop(Self, now)
           q == pop_kv(Self, now)
       IN /\ p.t.roll_count <= Max(roll_count, now)
          /\ q.t.roll_count <= Max(roll_count, now)
          /\ p.t.roll_count = roll_count + p.rolls
          /\ q.t.roll_count = roll_count + q.rolls
          /\ (~is_cur_over(wheel) \/ roll_count >= now) => (p.rolls = 0 /\ q.rolls = 0)
          /\ p.ret = None => p.t.roll_count >= now
          /\ q.ret = None => q.t.roll_count >= now

\* A pop that rolls twice, finds an entry and stops short of now.
C8_Witness ==
    \E now \in Nows :
       LET p == pop(Self, now)
       IN p.rolls >= 2 /\ p.ret # None /\ p.t.roll_count < now

\* C9: if is_ok(now) returns true, the pop(now) that follows returns Some
\* without a roll; if it returns false, the pop(now) that follows returns
\* None.
C9_IsOkThenPop ==
    \A now \in Nows :
       LET a == is_ok(Self, now)
           p == pop(a.t, now)
       IN /\ a.ret => (p.ret # None /\ p.rolls = 0)
          /\ ~a.ret => p.ret = None

\* is_ok rolls across an epoch's end and finds a migrated entry.
C9_Witness ==
    \E now \in Nows :
       LET a == is_ok(Self, now)
       IN a.ret /\ a.rolls >= 1 /\ Len(a.t.heap) < Len(heap)

\* C10: from the same state is_ok(now) and pop(now) end with the same
\* roll_count, wheel position and heap; is_ok removes no entry and leaves
\* add_count and remove_count alone; pop differs from it by the one entry
\* it returns.
C10_IsOkLikePop ==
    \A now \in Nows :
       LET a == is_ok(Self, now)
           p == pop(Self, now)
       IN /\ a.t.roll_count = p.t.roll_count
          /\ a.t.wheel.index = p.t.wheel.index
          /\ a.t.heap = p.t.heap
          /\ a.rolls = p.rolls
          /\ a.t.add_count = add_count
          /\ a.t.remove_count = remove_count
          /\ DOMAIN a.t.slot.nodes = Live
          /\ IF p.ret = None
             THEN p.t = a.t
             ELSE p.t = [a.t EXCEPT !.slot = slot_remove(@, p.key[1]),
                                    !.wheel = repair(@, a.t.wheel.index, p.key[1]),
                                    !.remove_count = @ + 1]

\* Both roll the clock, rebase the heap, and pop takes an entry.
C10_Witness ==
    \E now \in Nows :
       LET a == is_ok(Self, now)
           p == pop(Self, now)
       IN a.rolls >= 1 /\ a.t.heap # heap /\ p.ret # None /\ Len(a.t.heap) >= 1

\* C11: once pop(now) has returned None, a further pop(now') or is_ok(now')
\* with now' <= now, also after a cancel, returns None (false) and leaves
\* roll_count, the counters, the wheel and the heap unchanged.
C11_DrainedStays ==
    \A now \in Nows :
       LET p == pop(Self, now)
       IN p.ret = None =>
             /\ \A n2 \in 0 .. now :
                   /\ pop(p.t, n2) = [t |-> p.t, ret |-> None, key |-> None, rolls |-> 0]
                   /\ pop_kv(p.t, n2) = [t |-> p.t, ret |-> None, rolls |-> 0]
                   /\ is_ok(p.t, n2) = [t |-> p.t, ret |-> FALSE, rolls |-> 0]
             /\ \A k \in DOMAIN p.t.slot.nodes :
                   LET c == cancel(p.t, k).t
                   IN \A n2 \in 0 .. now :
                         pop(c, n2) = [t |-> c, ret |-> None, key |-> None, rolls |-> 0]

\* A pop that rolls, finds nothing due and leaves an entry pending.
C11_Witness ==
    \E now \in Nows :
       LET p == pop(Self, now)
       IN p.ret = None /\ p.rolls >= 1 /\ DOMAIN p.t.slot.nodes # {} /\ p.t.heap # <<>>

\* The key the n-th pop(now) from t returns, if the pops before it and
\* that pop make no roll; None otherwise.
RECURSIVE NthPop(_, _, _)
NthPop(t, now, n) ==
    LET p == pop(t, now)
    IN IF p.rolls # 0 \/ p.ret = None THEN None
       ELSE IF n = 1 THEN p.key
       ELSE NthPop(p.t, now, n - 1)

\* C12: push_time(time, v) has the effect of push(max(0, time - roll_count),
\* v); with time <= roll_count the entry goes to the end of the current
\* bucket and pop(roll_count) returns it without the clock advancing.
C12_PushTime ==
    \A time \in 0 .. MaxNow + max_time :
       LET r == push_time(Self, time, Payload(slot.next))
       IN /\ r = push(Self, Max(0, time - roll_count), Payload(slot.next))
          /\ time <= roll_count =>
                LET b == r.t.wheel.slots[r.t.wheel.index]
                IN /\ b # <<>>
                   /\ b[Len(b)] = r.ret
                   /\ NthPop(r.t, roll_count, Len(b)) = Some(r.ret)
                   /\ r.t.slot.nodes[r.ret].timeout = 0

\* push_time of a past tick behind an entry that waits in the current bucket.
C12_Witness ==
    /\ roll_count >= 2
    /\ slot.next < MaxKeys
    /\ ~is_cur_over(wheel)
    /\ \E time \in 0 .. roll_count - 1 :
          NthPop(push_time(Self, time, Payload(slot.next)).t, roll_count, 2) = Some(slot.next)

\* C13: an entry pushed at roll_count = 0 with max_time <= t < 2 * max_time
\* is in the heap while roll_count < max_time; from the max_time-th roll on
\* it is in the wheel with relative timeout t - max_time, and, unless a
\* direct roll() went past it, at roll_count = t it is in the current bucket
\* and pop(t) returns an entry without rolling.
C13_OneEpoch ==
    \A k \in Live :
       (pushed[k].at = 0 /\ pushed[k].timeout >= max_time
                         /\ pushed[k].timeout < 2 * max_time) =>
          IF roll_count < max_time
          THEN InHeap(Self, k) # {} /\ InWheel(Self, k) = {}
          ELSE /\ InHeap(Self, k) = {}
               /\ slot.nodes[k].timeout = pushed[k].timeout - max_time
               /\ slot.nodes[k].index = pushed[k].timeout - max_time
               /\ k \in Range(wheel.slots[pushed[k].timeout - max_time])
               /\ k \notin skipped =>
                     /\ roll_count <= pushed[k].timeout
                     /\ roll_count = pushed[k].timeout =>
                           /\ k \in Range(wheel.slots[wheel.index])
                           /\ pop(Self, pushed[k].timeout).ret # None
                           /\ pop(Self, pushed[k].timeout).rolls = 0

\* The entry pushed with max_time + 1 at tick 0 is next to be popped at
\* tick max_time + 1.
C13_Witness ==
    \E k \in Live :
       /\ pushed[k] = [at |-> 0, timeout |-> max_time + 1]
       /\ roll_count = max_time + 1
       /\ pop(Self, roll_count).key = Some(k)
       /\ pop(Self, roll_count).ret = Some(Payload(k))

\* C14: push returns a key that no live entry has; pop_kv returns (k, v)
\* with k the key push returned for v, a live key, wherever the heap or a
\* migration moved the entry; after that pop_kv, cancel(k) returns None.
C14_Keys ==
    /\ \A timeout \in 0 .. MaxTimeout :
          LET r == push(Self, timeout, Payload(slot.next))
          IN /\ r.ret \notin Live
             /\ r.t.slot.nodes[r.ret].el = Payload(slot.next)
             /\ Live \subseteq DOMAIN r.t.slot.nodes
    /\ \A now \in Nows :
          LET q == pop_kv(Self, now)
          IN q.ret # None =>
                LET k == q.ret[1][1]
                    v == q.ret[1][2]
                IN /\ k \in Live
                   /\ v = Payload(k)
                   /\ v = slot.nodes[k].el
                   /\ cancel(q.t, k).ret = None
                   /\ cancel(q.t, k).t = q.t

\* pop_kv returns the second key for an entry that went through the heap
\* behind the first key and was migrated into the wheel.
C14_Witness ==
    \E now \in Nows :
       LET q == pop_kv(Self, now)
       IN /\ q.ret = Some(<<1, Payload(1)>>)
          /\ pushed[1].timeout >= max_time
          /\ InWheel(Self, 1) # {}
          /\ 0 \in Live /\ pushed[0].timeout >= max_time

\* The (tick, key) pairs a heap array holds.
HeapSet(arr) == {arr[i] : i \in DOMAIN arr}

\* C15: roll() adds exactly 1 to roll_count; when the new roll_count is a
\* positive multiple of max_time it subtracts max_time from every heap tick
\* and moves the entries whose tick is then < max_time into the wheel; on
\* every other roll the heap array is unchanged.
C15_RollEpoch ==
    LET t == roll(Self)
    IN /\ t.roll_count = roll_count + 1
       /\ t.add_count = add_count /\ t.remove_count = remove_count
       /\ IF t.roll_count % max_time = 0
          THEN /\ HeapSet(t.heap) =
                     {<<e[1] - max_time, e[2]>> : e \in {h \in HeapSet(heap) : h[1] - max_time >= max_time}}
               /\ \A e \in HeapSet(heap) :
                     e[1] - max_time < max_time => InWheel(t, e[2]) # {}
          ELSE /\ t.heap = heap
               /\ t.slot = slot
               /\ t.wheel.slots = wheel.slots

\* A roll past the first epoch that changes the heap, and a state in the
\* middle of an epoch whose heap is not empty.
C15_Witness ==
    /\ roll_count > max_time
    /\ heap # <<>>
    /\ (roll_count + 1) % max_time = 0
    /\ roll(Self).heap # heap
    /\ roll(roll(Self)).heap = roll(Self).heap
    /\ roll(Self).heap # <<>>

\* C16: the heap array is a min-heap on the ticks, so position 0 holds a
\* minimum tick, also right after the rebase; after roll() no heap entry
\* has a tick < max_time and every entry roll() moved into the wheel had a
\* rebased tick < max_time.
C16_HeapOrder ==
    /\ \A i \in 2 .. Len(heap) : heap[i \div 2][1] <= heap[i][1]
    /\ \A i \in 1 .. Len(heap) : heap[1][1] <= heap[i][1]
    /\ LET t == roll(Self)
       IN /\ \A i \in 2 .. Len(t.heap) : t.heap[i \div 2][1] <= t.heap[i][1]
          /\ \A e \in HeapSet(t.heap) : e[1] >= max_time
          /\ \A e \in HeapSet(heap) :
                InHeap(t, e[2]) = {} =>
                   /\ e[1] - max_time < max_time
                   /\ InWheel(t, e[2]) # {}
                   /\ t.slot.nodes[e[2]].timeout = e[1] - max_time

\* Two heap entries with different ticks at the end of an epoch: the roll
\* moves the one at position 0 and keeps the other.
C16_Witness ==
    /\ Len(heap) = 2
    /\ heap[1][1] < heap[2][1]
    /\ (roll_count + 1) % max_time = 0
    /\ Len(roll(Self).heap) = 1
    /\ InWheel(roll(Self), heap[1][2]) # {}
    /\ InHeap(roll(Self), heap[2][2]) # {}

\* The tick an entry was scheduled for: roll_count at its push plus its timeout.
DueTick(k) == pushed[k].at + pushed[k].timeout

\* C17 as stated: once pop(now) returns None, no live entry has a due tick
\* <= now, direct roll() calls over a non-empty current bucket included.
C17_AllDue ==
    \A now \in Nows :
       LET p == pop(Self, now)
       IN p.ret = None => \A k \in DOMAIN p.t.slot.nodes : DueTick(k) > now

\* C17 amended: once pop(now) returns None, the only live entries with a
\* due tick <= now are those a direct roll() call went past while they
\* were in the current bucket.
C17_AllDueUnlessSkipped ==
    \A now \in Nows :
       LET p == pop(Self, now)
       IN p.ret = None =>
             \A k \in DOMAIN p.t.slot.nodes : DueTick(k) <= now => k \in skipped

\* pop(now) rolls, returns None and leaves a heap entry and a wheel entry
\* that are due later, with nothing skipped.
C17_Witness ==
    /\ skipped = {}
    /\ \E now \in Nows :
          LET p == pop(Self, now)
          IN /\ p.ret = None
             /\ p.rolls >= 1
             /\ \E k \in Live : \E j \in Live :
                   /\ InHeap(p.t, k) # {} /\ InWheel(p.t, j) # {}
                   /\ DueTick(k) > now /\ DueTick(j) > now

\* C18: pop(now), pop_kv(now) and is_ok(now) make at most
\* max(0, now - roll_count) calls of roll(), and one roll() moves as many
\* entries into the wheel as it takes from the heap, at most the number the
\* heap held when the roll started.
C18_Bounded ==
    /\ \A now \in Nows :
          LET p == pop(Self, now)
              q == pop_kv(Self, now)
              a == is_ok(Self, now)
          IN /\ p.rolls <= Max(0, now - roll_count)
             /\ q.rolls <= Max(0, now - roll_count)
             /\ a.rolls <= Max(0, now - roll_count)
             /\ p.t.roll_count = roll_count + p.rolls
             /\ q.t.roll_count = roll_count + q.rolls
             /\ a.t.roll_count = roll_count + a.rolls
    /\ LET t == roll(Self)
           moved == WheelCount(t.wheel, 0) - WheelCount(wheel, 0)
       IN /\ moved = Len(heap) - Len(t.heap)
          /\ moved >= 0
          /\ moved <= Len(heap)

\* is_ok makes all of its now - roll_count >= 2 rolls and the roll at the
\* end of the epoch moves both heap entries.
C18_Witness ==
    \E now \in Nows :
       LET a == is_ok(Self, now)
       IN /\ a.rolls = now - roll_count
          /\ a.rolls >= 2
          /\ Len(heap) = 2
          /\ a.t.heap = <<>>
          /\ ~a.ret

\* C19: between operations every heap entry has a tick >= max_time, so the
\* unsigned subtraction of max_time in roll() stays >= 0.
C19_HeapTicks ==
    /\ \A i \in DOMAIN heap : heap[i][1] >= max_time
    /\ \A i \in DOMAIN heap : rebase(heap)[i][1] >= 0
    /\ \A timeout \in 0 .. MaxTimeout :
          \A e \in HeapSet(push(Self, timeout, Payload(slot.next)).t.heap) : e[1] >= max_time
    /\ \A e \in HeapSet(roll(Self).heap) : e[1] >= max_time

\* A heap entry that a rebase brought down to exactly max_time.
C19_Witness ==
    \E i \in DOMAIN heap :
       /\ heap[i][1] = max_time
       /\ pushed[heap[i][2]].timeout = 2 * max_time
       /\ roll_count >= max_time

\* TRUE iff each of the first n rolls of a polling loop started from t
\* finds the current bucket empty.
RECURSIVE RollsOnEmpty(_, _)
RollsOnEmpty(t, n) ==
    n = 0 \/ (is_cur_over(t.wheel) /\ RollsOnEmpty(roll(t), n - 1))

\* The tick at which the wheel pointer reaches the bucket of entry k: the
\* due tick, less the phase of the push for an entry that went to the heap.
ReachTick(k) ==
    IF pushed[k].timeout >= max_time
    THEN DueTick(k) - (pushed[k].at % max_time)
    ELSE DueTick(k)

\* C20: every roll() that pop, pop_kv or is_ok makes finds the current
\* bucket empty; so the pointer has gone past a live entry's bucket only if
\* a direct roll() call did it.
C20_RollOnEmpty ==
    /\ \A now \in Nows :
          /\ RollsOnEmpty(Self, pop(Self, now).rolls)
          /\ RollsOnEmpty(Self, pop_kv(Self, now).rolls)
          /\ RollsOnEmpty(Self, is_ok(Self, now).rolls)
    /\ \A k \in Live \ skipped : roll_count <= ReachTick(k)

\* is_ok rolls twice or more and stops before now at an entry that came
\* from the heap, none having been skipped.
C20_Witness ==
    /\ skipped = {}
    /\ \E now \in Nows :
          LET a == is_ok(Self, now)
          IN /\ a.ret
             /\ a.rolls >= 2
             /\ a.t.roll_count < now
             /\ \E k \in Live : /\ pushed[k].timeout >= max_time
                                /\ k \in Range(a.t.wheel.slots[a.t.wheel.index])

====
